---- MODULE Spec2Model ----
(***************************************************************************)
(* Resource-meta registry of internal/dao/registry.go: the catalog         *)
(* (Meta.resMetas) guarded by a sync.RWMutex, its lookups (AllGVRs,        *)
(* GVK2GVR, MetaFor), RegisterMeta, and the multi-phase refresh            *)
(* LoadResources (clear, loadPreferred, loadNonResource, loadCRDs).        *)
(***************************************************************************)
EXTENDS Integers, Sequences, FiniteSets, TLC

(***************************************************************************)
(* Bounds of the model.                                                    *)
(***************************************************************************)
\* longest discovery result (number of APIResourceLists) a refresh sees
MaxLists == 2
\* longest custom-resource-definition listing a refresh sees
MaxCRDs == 2

Threads == {"t1", "t2"}

(***************************************************************************)
(* Category constants, registry.go:25-31.                                  *)
(***************************************************************************)
crdCat == "crd"
k9sCat == "k9s"
helmCat == "helm"
scaleCat == "scale"
crdGVR == "apiextensions.k8s.io/v1/customresourcedefinitions"

stdGroups ==
  { "apps/v1", "autoscaling/v1", "autoscaling/v2", "autoscaling/v2beta1",
    "autoscaling/v2beta2", "batch/v1", "batch/v1beta1", "extensions/v1beta1",
    "policy/v1beta1", "policy/v1", "v1" }

(***************************************************************************)
(* Strings.  TLC treats a string as the sequence of its characters.        *)
(***************************************************************************)
\* strings.Contains
Contains(s, sub) ==
  \E i \in 1..(Len(s) - Len(sub) + 1) : SubSeq(s, i, i + Len(sub) - 1) = sub

\* strings.HasSuffix
HasSuffix(s, suf) ==
  /\ Len(suf) <= Len(s)
  /\ SubSeq(s, Len(s) - Len(suf) + 1, Len(s)) = suf

UpperChars == "ABCDEFGHIJKLMNOPQRSTUVWXYZ"
LowerChars == "abcdefghijklmnopqrstuvwxyz"

LowerChar(c) ==
  IF \E i \in 1..Len(UpperChars) : SubSeq(UpperChars, i, i) = c
  THEN LET i == CHOOSE j \in 1..Len(UpperChars) : SubSeq(UpperChars, j, j) = c
       IN  SubSeq(LowerChars, i, i)
  ELSE c

RECURSIVE ToLower(_)
\* strings.ToLower
ToLower(s) ==
  IF s = "" THEN ""
  ELSE LowerChar(SubSeq(s, 1, 1)) \o ToLower(SubSeq(s, 2, Len(s)))

RECURSIVE SplitSlash(_, _)
\* strings.Split(s, "/"): cur is the token being read
SplitSlash(s, cur) ==
  IF s = "" THEN <<cur>>
  ELSE IF SubSeq(s, 1, 1) = "/"
       THEN <<cur>> \o SplitSlash(SubSeq(s, 2, Len(s)), "")
       ELSE SplitSlash(SubSeq(s, 2, Len(s)), cur \o SubSeq(s, 1, 1))

(***************************************************************************)
(* client.GVR.  A GVR is identified by its raw path "group/version/name";  *)
(* the group and the version are parsed from the path.                     *)
(***************************************************************************)
NoGVR == ""

NewGVR(path) == path

G(gvr) ==
  LET tt == SplitSlash(gvr, "") IN IF Len(tt) = 3 THEN tt[1] ELSE ""

V(gvr) ==
  LET tt == SplitSlash(gvr, "")
  IN  IF Len(tt) = 3 THEN tt[2] ELSE IF Len(tt) = 2 THEN tt[1] ELSE ""

\* path.Join of two or three elements, empty elements dropped
PathJoin2(a, b) ==
  IF a = "" THEN b ELSE IF b = "" THEN a ELSE a \o "/" \o b

FromGVAndR(gv, r) == NewGVR(PathJoin2(gv, r))

NewGVRFromMeta(group, version, name) ==
  NewGVR(PathJoin2(group, PathJoin2(version, name)))

(***************************************************************************)
(* metav1.APIResource.  Slices are sequences; the zero value has empty     *)
(* strings, FALSE and empty slices.                                        *)
(***************************************************************************)
APIResource(name, kind, singular, namespaced, short, verbs, cats) ==
  [ Name |-> name, Kind |-> kind, SingularName |-> singular,
    Group |-> "", Version |-> "", Namespaced |-> namespaced,
    ShortNames |-> short, Verbs |-> verbs, Categories |-> cats ]

ZeroAPIResource == APIResource("", "", "", FALSE, <<>>, <<>>, <<>>)

\* slices.Contains
SliceContains(ss, x) == \E i \in 1..Len(ss) : ss[i] = x

(***************************************************************************)
(* ResourceMetas: a map from GVR to APIResource.                           *)
(***************************************************************************)
EmptyMetas == [k \in {} |-> ZeroAPIResource]

\* mutant of Put: an entry the map already holds is kept
Put_KeepsFirst(m, k, v) ==
  IF k \in DOMAIN m THEN m
  ELSE [x \in (DOMAIN m) \cup {k} |-> IF x = k THEN v ELSE m[x]]

\* m[k] = v
Put(m, k, v) == [x \in (DOMAIN m) \cup {k} |-> IF x = k THEN v ELSE m[x]]

\* mutant of clear: the entries are kept
clear_Keep(m) == m

\* ResourceMetas.clear
clear(m) == EmptyMetas

IsCRD(r) == SliceContains(r.Categories, crdCat)
IsK9sMeta(r) == SliceContains(r.Categories, k9sCat)
IsScalable(r) == SliceContains(r.Categories, scaleCat)
IsK8sMeta(r) ==
  ~ \E i \in 1..Len(r.Categories) :
       r.Categories[i] = k9sCat \/ r.Categories[i] = helmCat

(***************************************************************************)
(* Synthetic registration, registry.go:197-333.                            *)
(***************************************************************************)
K9sMetas ==
     (NewGVR("workloads") :>
        APIResource("workloads", "Workload", "workload", TRUE, <<"wk">>, <<>>, <<k9sCat>>))
  @@ (NewGVR("pulses") :>
        APIResource("pulses", "Pulse", "pulses", FALSE, <<"hz", "pu">>, <<>>, <<k9sCat>>))
  @@ (NewGVR("dir") :>
        APIResource("dir", "Dir", "dir", FALSE, <<>>, <<>>, <<k9sCat>>))
  @@ (NewGVR("xrays") :>
        APIResource("xray", "XRays", "xray", FALSE, <<>>, <<>>, <<k9sCat>>))
  @@ (NewGVR("references") :>
        APIResource("references", "References", "reference", FALSE, <<>>, <<>>, <<k9sCat>>))
  @@ (NewGVR("aliases") :>
        APIResource("aliases", "Aliases", "alias", FALSE, <<>>, <<>>, <<k9sCat>>))
  @@ (NewGVR("contexts") :>
        APIResource("contexts", "Contexts", "context", FALSE, <<"ctx">>, <<>>, <<k9sCat>>))
  @@ (NewGVR("screendumps") :>
        APIResource("screendumps", "ScreenDumps", "screendump", FALSE, <<"sd">>, <<"delete">>, <<k9sCat>>))
  @@ (NewGVR("benchmarks") :>
        APIResource("benchmarks", "Benchmarks", "benchmark", FALSE, <<"be">>, <<"delete">>, <<k9sCat>>))
  @@ (NewGVR("portforwards") :>
        APIResource("portforwards", "PortForwards", "portforward", TRUE, <<"pf">>, <<"delete">>, <<k9sCat>>))
  @@ (NewGVR("containers") :>
        APIResource("containers", "Containers", "container", FALSE, <<>>, <<>>, <<k9sCat>>))
  @@ (NewGVR("scans") :>
        APIResource("scans", "Scans", "scan", FALSE, <<>>, <<>>, <<k9sCat>>))

HelmMetas ==
     (NewGVR("helm") :>
        APIResource("helm", "Helm", "", TRUE, <<>>, <<"delete">>, <<helmCat>>))
  @@ (NewGVR("helm-history") :>
        APIResource("history", "History", "", TRUE, <<>>, <<"delete">>, <<helmCat>>))

RBACMetas ==
     (NewGVR("rbac") :>
        APIResource("rbacs", "Rules", "", FALSE, <<>>, <<>>, <<k9sCat>>))
  @@ (NewGVR("policy") :>
        APIResource("policies", "Rules", "", TRUE, <<>>, <<>>, <<k9sCat>>))
  @@ (NewGVR("users") :>
        APIResource("users", "User", "", FALSE, <<>>, <<>>, <<k9sCat>>))
  @@ (NewGVR("groups") :>
        APIResource("groups", "Group", "", FALSE, <<>>, <<>>, <<k9sCat>>))

\* every assignment m[k] = v of the table overwrites what m held under k
loadK9s(m) == K9sMetas @@ m
loadRBAC(m) == RBACMetas @@ m
loadHelm(m) == HelmMetas @@ m

loadNonResource(m) == loadHelm(loadRBAC(loadK9s(m)))

(***************************************************************************)
(* Filters, registry.go:369-379.                                           *)
(***************************************************************************)
\* mutant of isStandardGroup: no group-version is standard
isStandardGroup_Never(gv) == FALSE

isStandardGroup(gv) == gv \in stdGroups \/ Contains(gv, ".k8s.io")

deprecatedGVRs == { NewGVR("extensions/v1beta1/ingresses") }

\* mutant of isDeprecated: the deny-list is not consulted
isDeprecated_Never(gvr) == FALSE

isDeprecated(gvr) == gvr \in deprecatedGVRs

(***************************************************************************)
(* The loops of loadPreferred, registry.go:349-364.                        *)
(***************************************************************************)
\* one iteration of the inner loop: the descriptor stored for res of gv
\* mutant of preferredMeta: the reported singular name is kept as it is
preferredMeta_KeepsSingular(gv, res) ==
  LET gvr == FromGVAndR(gv, res.Name)
      r1  == [res EXCEPT !.Group = G(gvr), !.Version = V(gvr)]
  IN  IF ~ isStandardGroup(gv)
      THEN [r1 EXCEPT !.Categories = Append(@, crdCat)]
      ELSE r1

preferredMeta(gv, res) ==
  LET gvr == FromGVAndR(gv, res.Name)
      r1  == [res EXCEPT !.Group = G(gvr), !.Version = V(gvr)]
      r2  == IF r1.SingularName = ""
             THEN [r1 EXCEPT !.SingularName = ToLower(r1.Kind)]
             ELSE r1
  IN  IF ~ isStandardGroup(gv)
      THEN [r2 EXCEPT !.Categories = Append(@, crdCat)]
      ELSE r2

RECURSIVE installResources(_, _, _)
\* for _, res := range r.APIResources
installResources(m, gv, resources) ==
  IF resources = <<>> THEN m
  ELSE LET res == Head(resources)
           gvr == FromGVAndR(gv, res.Name)
       IN  IF isDeprecated(gvr)
           THEN installResources(m, gv, Tail(resources))
           ELSE installResources(Put(m, gvr, preferredMeta(gv, res)), gv,
                                 Tail(resources))

RECURSIVE installLists(_, _)
\* for _, r := range rr
installLists(m, rr) ==
  IF rr = <<>> THEN m
  ELSE installLists(installResources(m, Head(rr).GroupVersion,
                                     Head(rr).APIResources),
                    Tail(rr))

(***************************************************************************)
(* Custom resource definitions, registry.go:393-427.  A listed object is   *)
(* [Conv, Group, Kind, Plural, Versions]: Conv tells whether the           *)
(* structured conversion of the object succeeds, a version is              *)
(* [Name, Served, Deprecated, Scale], Scale standing for                   *)
(* Subresources != nil && Subresources.Scale != nil.                       *)
(***************************************************************************)
CRDVersion(name, served, deprecated, scale) ==
  [Name |-> name, Served |-> served, Deprecated |-> deprecated, Scale |-> scale]

ZeroCRDVersion == CRDVersion("", FALSE, FALSE, FALSE)

RECURSIVE firstServed_IgnoresDeprecated(_, _)
\* mutant of firstServed: the first served version, deprecated or not
firstServed_IgnoresDeprecated(crd, versions) ==
  IF versions = <<>>
  THEN [gvr |-> NoGVR, version |-> ZeroCRDVersion, ok |-> FALSE]
  ELSE LET v == Head(versions)
       IN  IF v.Served
           THEN [gvr |-> NewGVRFromMeta(crd.Group, v.Name, crd.Plural),
                 version |-> v, ok |-> TRUE]
           ELSE firstServed_IgnoresDeprecated(crd, Tail(versions))

RECURSIVE firstServed(_, _)
\* for _, v := range crd.Spec.Versions
firstServed(crd, versions) ==
  IF versions = <<>>
  THEN [gvr |-> NoGVR, version |-> ZeroCRDVersion, ok |-> FALSE]
  ELSE LET v == Head(versions)
       IN  IF v.Served /\ ~ v.Deprecated
           THEN [gvr |-> NewGVRFromMeta(crd.Group, v.Name, crd.Plural),
                 version |-> v, ok |-> TRUE]
           ELSE firstServed(crd, Tail(versions))

newGVRFromCRD(crd) == firstServed(crd, crd.Versions)

\* whether the loop body gets past the conversion of o
converts(o) == o.Conv

\* mutant of augmentOne: scale is appended without the slices.Contains test
augmentOne_AppendsAlways(m, o) ==
  IF ~ converts(o) THEN m
  ELSE LET r == newGVRFromCRD(o)
       IN  IF ~ r.ok THEN m
           ELSE IF r.gvr \in DOMAIN m /\ r.version.Scale
                THEN Put(m, r.gvr,
                         [m[r.gvr] EXCEPT !.Categories = Append(@, scaleCat)])
                ELSE m

\* one iteration of the loop of loadCRDs
augmentOne(m, o) ==
  IF ~ converts(o) THEN m
  ELSE LET r == newGVRFromCRD(o)
       IN  IF ~ r.ok THEN m
           ELSE IF r.gvr \in DOMAIN m /\ r.version.Scale
                THEN IF ~ SliceContains(m[r.gvr].Categories, scaleCat)
                     THEN Put(m, r.gvr,
                              [m[r.gvr] EXCEPT !.Categories = Append(@, scaleCat)])
                     ELSE m
                ELSE m

RECURSIVE augmentAll_StopsAtFailure(_, _)
\* mutant of augmentAll: a failed conversion ends the loop (break for
\* continue)
augmentAll_StopsAtFailure(m, oo) ==
  IF oo = <<>> THEN m
  ELSE IF ~ Head(oo).Conv THEN m
  ELSE augmentAll_StopsAtFailure(augmentOne(m, Head(oo)), Tail(oo))

RECURSIVE augmentAll(_, _)
\* for _, o := range oo
augmentAll(m, oo) ==
  IF oo = <<>> THEN m ELSE augmentAll(augmentOne(m, Head(oo)), Tail(oo))

(***************************************************************************)
(* client.GVRs ordering used by sort.Sort in AllGVRs: ascending by         *)
(* identifier, characters compared by their code.                          *)
(***************************************************************************)
Alphabet == "-./0123456789ABCDEFGHIJKLMNOPQRSTUVWXYZabcdefghijklmnopqrstuvwxyz"

CharRank(c) == CHOOSE i \in 1..Len(Alphabet) : SubSeq(Alphabet, i, i) = c

RECURSIVE GVRLess(_, _)
GVRLess(a, b) ==
  IF b = "" THEN FALSE
  ELSE IF a = "" THEN TRUE
  ELSE IF SubSeq(a, 1, 1) = SubSeq(b, 1, 1)
       THEN GVRLess(SubSeq(a, 2, Len(a)), SubSeq(b, 2, Len(b)))
       ELSE CharRank(SubSeq(a, 1, 1)) < CharRank(SubSeq(b, 1, 1))

\* the keys of S in ascending order
SortGVRs(S) ==
  LET rank == [x \in S |-> Cardinality({y \in S : GVRLess(y, x)})]
  IN  [i \in 1..Cardinality(S) |-> CHOOSE x \in S : rank[x] = i - 1]

(***************************************************************************)
(* Upstream data a refresh can see.                                        *)
(***************************************************************************)
APIResourceList(gv, resources) == [GroupVersion |-> gv, APIResources |-> resources]

CoreV1 ==
  APIResourceList("v1",
    << APIResource("pods", "Pod", "pod", TRUE, <<"po">>, <<"get", "list">>, <<"all">>) >>)

ExtensionsV1beta1 ==
  APIResourceList("extensions/v1beta1",
    << APIResource("ingresses", "Ingress", "ingress", TRUE, <<"ing">>, <<"get", "list">>, <<>>),
       APIResource("deployments", "Deployment", "", TRUE, <<"deploy">>, <<"get", "list">>, <<>>) >>)

ExampleV1 ==
  APIResourceList("example.com/v1",
    << APIResource("widgets", "Widget", "", TRUE, <<>>, <<"get", "list">>, <<>>),
       APIResource("gadgets", "Gadget", "gadget", FALSE, <<>>, <<"get", "list">>, <<>>) >>)

ExampleV2 ==
  APIResourceList("example.com/v2",
    << APIResource("gadgets", "Gadget", "gadget", FALSE, <<>>, <<"get", "list">>, <<>>) >>)

LookalikeV1 ==
  APIResourceList("x.k8s.io.example.com/v1",
    << APIResource("things", "Thing", "thing", TRUE, <<>>, <<"get", "list">>, <<>>) >>)

APILists == {CoreV1, ExtensionsV1beta1, ExampleV1, ExampleV2, LookalikeV1}

CRD(conv, group, kind, plural, versions) ==
  [Conv |-> conv, Group |-> group, Kind |-> kind, Plural |-> plural,
   Versions |-> versions]

\* the first version is not served; the authoritative one declares scale
WidgetCRD ==
  CRD(TRUE, "example.com", "Widget", "widgets",
      << CRDVersion("v1alpha1", FALSE, FALSE, TRUE),
         CRDVersion("v1", TRUE, FALSE, TRUE) >>)

\* the versions around the authoritative one (v1) declare scale, it does
\* not; the first version is served but deprecated
GadgetCRD ==
  CRD(TRUE, "example.com", "Gadget", "gadgets",
      << CRDVersion("v2", TRUE, TRUE, TRUE),
         CRDVersion("v1", TRUE, FALSE, FALSE),
         CRDVersion("v3", TRUE, FALSE, TRUE) >>)

\* no version is served and not deprecated
RetiredCRD ==
  CRD(TRUE, "example.com", "Gadget", "gadgets",
      << CRDVersion("v1", FALSE, FALSE, TRUE),
         CRDVersion("v2", TRUE, TRUE, TRUE) >>)

\* an object whose structured conversion fails
BrokenCRD ==
  CRD(FALSE, "example.com", "Gadget", "gadgets",
      << CRDVersion("v1", TRUE, FALSE, TRUE) >>)

CRDObjects == {WidgetCRD, GadgetCRD, RetiredCRD, BrokenCRD}

SeqsUpTo(S, n) == UNION {[1..k -> S] : k \in 0..n}

DiscoveryResults == SeqsUpTo(APILists, MaxLists)
CRDListings == SeqsUpTo(CRDObjects, MaxCRDs)

\* arguments of RegisterMeta
RegGVRs == {"custom/v1/foos", "extensions/v1beta1/ingresses"}
RegMetas ==
  { APIResource("foos", "Foo", "foo", TRUE, <<>>, <<>>, <<>>),
    APIResource("foos", "Foo", "foo", FALSE, <<>>, <<>>, <<crdCat>>) }

RegisteredGVRs == {NewGVR(g) : g \in RegGVRs}

\* the identifiers of the resources a discovery result reports
ReportedGVRs(rr) ==
  UNION {{FromGVAndR(rr[i].GroupVersion, rr[i].APIResources[j].Name) :
            j \in 1..Len(rr[i].APIResources)} : i \in 1..Len(rr)}

\* arguments of MetaFor
LookupGVRs ==
  {"workloads", "custom/v1/foos", "extensions/v1beta1/ingresses",
   "example.com/v1/widgets"}

\* arguments of GVK2GVR
LookupGVKs ==
  { [Group |-> "", Version |-> "", Kind |-> "Rules"],
    [Group |-> "example.com", Version |-> "v1", Kind |-> "Widget"],
    [Group |-> "apps", Version |-> "v1", Kind |-> "Deployment"] }

(***************************************************************************)
(* State.                                                                  *)
(*   resMetas  Meta.resMetas                                               *)
(*   mx        Meta.mx: the thread holding the write lock ("none" when     *)
(*             free) and the threads holding the read lock                 *)
(*   pc        where each thread stands in the call it is making           *)
(*   call      the operation each thread is in ("none" when idle)          *)
(*   result    what a lookup has read for its caller; the arguments of a   *)
(*             RegisterMeta call that holds the lock                       *)
(*   lr        the locals of the LoadResources call that holds the lock:   *)
(*             the outcome of every check and outbound call it has made    *)
(*             (rr and query, locals of loadPreferred, until loadPreferred *)
(*             has returned), the phases it has run, its return value,     *)
(*             and for the properties: the identifiers discovery reported, *)
(*             the identifiers of RegisterMeta the catalog held when the   *)
(*             lock was taken, the catalog at the start of loadCRDs, and   *)
(*             the catalog the phases run so far build from an empty map   *)
(*   heap      the objects the functions of the package allocate for their *)
(*             callers, by address: the slice AllGVRs makes, the accessor  *)
(*             AccessorFor returns                                         *)
(*   held      the address of the object each caller holds (0 for none)    *)
(*   xm        a call of extractMeta: its argument o and, once it has      *)
(*             returned, its results m and errs                            *)
(***************************************************************************)
VARIABLES resMetas, mx, pc, call, result, lr, heap, held, xm

vars == <<resMetas, mx, pc, call, result, lr, heap, held, xm>>

NoResult == [op |-> "none"]

\* no call of extractMeta
NoExtract == [o |-> [t |-> "nil"], done |-> FALSE]

\* no object allocated
EmptyHeap == [a \in {} |-> <<>>]

LRInit ==
  [ conn1 |-> "none", dial |-> "none", query |-> "none", rr |-> <<>>,
    conn2 |-> "none", list |-> "none", oo |-> <<>>,
    calls |-> {}, phases |-> <<>>, ret |-> "none",
    reported |-> {}, before |-> {}, base |-> EmptyMetas, fresh |-> EmptyMetas ]

\* NewMeta
Init ==
  /\ resMetas = EmptyMetas
  /\ mx = [writer |-> "none", readers |-> {}]
  /\ pc = [t \in Threads |-> "idle"]
  /\ call = [t \in Threads |-> "none"]
  /\ result = [t \in Threads |-> NoResult]
  /\ lr = LRInit
  /\ heap = EmptyHeap
  /\ held = [t \in Threads |-> 0]
  /\ xm = NoExtract

(***************************************************************************)
(* sync.RWMutex.                                                           *)
(***************************************************************************)
\* mutant of CanLock: a writer does not wait for another writer
CanLock_IgnoresWriter == mx.readers = {}

CanLock == mx.writer = "none" /\ mx.readers = {}
\* mutant of CanRLock: a reader does not wait for the writer
CanRLock_IgnoresWriter == TRUE

CanRLock == mx.writer = "none"

\* a thread starts a call
Call(t, op, first) ==
  /\ pc[t] = "idle"
  /\ pc' = [pc EXCEPT ![t] = first]
  /\ call' = [call EXCEPT ![t] = op]
  /\ UNCHANGED <<resMetas, mx, result, lr, heap, held, xm>>

CallLoadResources(t) == Call(t, "LoadResources", "lr_lock")
CallRegisterMeta(t) == Call(t, "RegisterMeta", "rm_lock")
CallAllGVRs(t) == Call(t, "AllGVRs", "rd_lock")
CallMetaFor(t) == Call(t, "MetaFor", "rd_lock")
CallGVK2GVR(t) == Call(t, "GVK2GVR", "rd_lock")

(***************************************************************************)
(* LoadResources, registry.go:179-194.                                     *)
(***************************************************************************)
\* m.mx.Lock()
LR_Lock(t) ==
  /\ pc[t] = "lr_lock"
  /\ CanLock
  /\ mx' = [mx EXCEPT !.writer = t]
  /\ pc' = [pc EXCEPT ![t] = "lr_clear"]
  /\ lr' = [LRInit EXCEPT !.before = (DOMAIN resMetas) \cap RegisteredGVRs]
  /\ UNCHANGED <<resMetas, call, result, heap, held, xm>>

\* mutant of LR_Clear: the synthetic table is installed right after the
\* clear, before discovery
LR_Clear_SyntheticFirst(t) ==
  /\ pc[t] = "lr_clear"
  /\ resMetas' = loadNonResource(clear(resMetas))
  /\ lr' = [lr EXCEPT !.phases = @ \o <<"clear", "loadNonResource">>,
                      !.fresh = loadNonResource(clear(@))]
  /\ pc' = [pc EXCEPT ![t] = "lr_conn"]
  /\ UNCHANGED <<mx, call, result, heap, held, xm>>

\* m.resMetas.clear()
LR_Clear(t) ==
  /\ pc[t] = "lr_clear"
  /\ resMetas' = clear(resMetas)
  /\ lr' = [lr EXCEPT !.phases = Append(@, "clear"), !.fresh = clear(@)]
  /\ pc' = [pc EXCEPT ![t] = "lr_conn"]
  /\ UNCHANGED <<mx, call, result, heap, held, xm>>

\* mutant of LR_Conn: discovery is attempted whatever the check says
LR_Conn_IgnoresConnection(t) ==
  /\ pc[t] = "lr_conn"
  /\ \E c \in {"nil", "down", "ok"} :
       /\ lr' = [lr EXCEPT !.conn1 = c, !.phases = Append(@, "loadPreferred")]
       /\ pc' = [pc EXCEPT ![t] = "lr_dial"]
  /\ UNCHANGED <<resMetas, mx, call, result, heap, held, xm>>

\* loadPreferred: f.Client() == nil || !f.Client().ConnectionOK()
LR_Conn(t) ==
  /\ pc[t] = "lr_conn"
  /\ \E c \in {"nil", "down", "ok"} :
       /\ lr' = [lr EXCEPT !.conn1 = c, !.phases = Append(@, "loadPreferred")]
       /\ pc' = [pc EXCEPT ![t] = IF c = "ok" THEN "lr_dial" ELSE "lr_nonres"]
  /\ UNCHANGED <<resMetas, mx, call, result, heap, held, xm>>

\* loadPreferred: f.Client().CachedDiscovery(); its error is returned by
\* LoadResources
LR_Dial(t) ==
  /\ pc[t] = "lr_dial"
  /\ \E e \in {"ok", "err"} :
       /\ lr' = [lr EXCEPT !.dial = e,
                           !.calls = @ \cup {"CachedDiscovery"},
                           !.ret = IF e = "err" THEN "err" ELSE @]
       /\ pc' = [pc EXCEPT ![t] = IF e = "err" THEN "lr_ret" ELSE "lr_query"]
  /\ UNCHANGED <<resMetas, mx, call, result, heap, held, xm>>

\* mutant of LR_Query: an error of the query is returned by LoadResources
LR_Query_AbortsOnError(t) ==
  /\ pc[t] = "lr_query"
  /\ \E e \in {"ok", "err"}, rr \in DiscoveryResults :
       /\ lr' = [lr EXCEPT !.query = e, !.rr = rr,
                           !.calls = @ \cup {"ServerPreferredResources"},
                           !.reported = ReportedGVRs(rr),
                           !.fresh = IF e = "err" THEN @ ELSE installLists(@, rr),
                           !.ret = IF e = "err" THEN "err" ELSE @]
       /\ resMetas' = IF e = "err" THEN resMetas ELSE installLists(resMetas, rr)
       /\ pc' = [pc EXCEPT ![t] = IF e = "err" THEN "lr_ret" ELSE "lr_nonres"]
  /\ UNCHANGED <<mx, call, result, heap, held, xm>>

\* loadPreferred: dial.ServerPreferredResources() and the loops over rr
LR_Query(t) ==
  /\ pc[t] = "lr_query"
  /\ \E e \in {"ok", "err"}, rr \in DiscoveryResults :
       /\ lr' = [lr EXCEPT !.query = e, !.rr = rr,
                           !.calls = @ \cup {"ServerPreferredResources"},
                           !.reported = ReportedGVRs(rr),
                           !.fresh = installLists(@, rr)]
       /\ resMetas' = installLists(resMetas, rr)
  /\ pc' = [pc EXCEPT ![t] = "lr_nonres"]
  /\ UNCHANGED <<mx, call, result, heap, held, xm>>

\* loadPreferred has returned nil (its locals are gone);
\* loadNonResource(m.resMetas)
LR_NonResource(t) ==
  /\ pc[t] = "lr_nonres"
  /\ resMetas' = loadNonResource(resMetas)
  /\ lr' = [lr EXCEPT !.phases = Append(@, "loadNonResource"),
                      !.rr = <<>>, !.query = "none",
                      !.fresh = loadNonResource(@)]
  /\ pc' = [pc EXCEPT ![t] = "lr_crdconn"]
  /\ UNCHANGED <<mx, call, result, heap, held, xm>>

\* loadCRDs: f.Client() == nil || !f.Client().ConnectionOK().  The factory
\* has a client or has none for the whole call.
LR_CRDConn(t) ==
  /\ pc[t] = "lr_crdconn"
  /\ \E c \in {"nil", "down", "ok"} :
       /\ (c = "nil") <=> (lr.conn1 = "nil")
       /\ lr' = [lr EXCEPT !.conn2 = c, !.base = resMetas,
                           !.phases = Append(@, "loadCRDs"),
                           !.ret = IF c = "ok" THEN @ ELSE "nil"]
       /\ pc' = [pc EXCEPT ![t] = IF c = "ok" THEN "lr_list" ELSE "lr_ret"]
  /\ UNCHANGED <<resMetas, mx, call, result, heap, held, xm>>

\* loadCRDs: f.List(crdGVR, ...) and the loop over oo
LR_List(t) ==
  /\ pc[t] = "lr_list"
  /\ \/ /\ lr' = [lr EXCEPT !.list = "err", !.ret = "nil",
                            !.calls = @ \cup {"List"}]
        /\ UNCHANGED resMetas
     \/ \E oo \in CRDListings :
          /\ lr' = [lr EXCEPT !.list = "ok", !.oo = oo, !.ret = "nil",
                              !.calls = @ \cup {"List"},
                              !.fresh = augmentAll(@, oo)]
          /\ resMetas' = augmentAll(resMetas, oo)
  /\ pc' = [pc EXCEPT ![t] = "lr_ret"]
  /\ UNCHANGED <<mx, call, result, heap, held, xm>>

\* mutant of LR_Return: the return of the discovery-handle error leaves the
\* lock taken
LR_Return_KeepsLockOnError(t) ==
  /\ pc[t] = "lr_ret"
  /\ mx' = IF lr.ret = "err" THEN mx ELSE [mx EXCEPT !.writer = "none"]
  /\ pc' = [pc EXCEPT ![t] = "idle"]
  /\ call' = [call EXCEPT ![t] = "none"]
  /\ lr' = LRInit
  /\ UNCHANGED <<resMetas, result, heap, held, xm>>

\* return: the deferred m.mx.Unlock()
LR_Return(t) ==
  /\ pc[t] = "lr_ret"
  /\ mx' = [mx EXCEPT !.writer = "none"]
  /\ pc' = [pc EXCEPT ![t] = "idle"]
  /\ call' = [call EXCEPT ![t] = "none"]
  /\ lr' = LRInit
  /\ UNCHANGED <<resMetas, result, heap, held, xm>>

(***************************************************************************)
(* RegisterMeta, registry.go:108-114.                                      *)
(***************************************************************************)
\* m.mx.Lock(); the arguments gvr and res of the call are drawn here, where
\* they start to matter
RM_Lock(t) ==
  /\ pc[t] = "rm_lock"
  /\ CanLock
  /\ mx' = [mx EXCEPT !.writer = t]
  /\ pc' = [pc EXCEPT ![t] = "rm_set"]
  /\ \E gvr \in RegGVRs, res \in RegMetas :
       result' = [result EXCEPT ![t] =
                    [op |-> "RegisterMeta", gvr |-> gvr, res |-> res]]
  /\ UNCHANGED <<resMetas, call, lr, heap, held, xm>>

\* m.resMetas[client.NewGVR(gvr)] = res, then the deferred Unlock
RM_Set(t) ==
  /\ pc[t] = "rm_set"
  /\ resMetas' = Put(resMetas, NewGVR(result[t].gvr), result[t].res)
  /\ mx' = [mx EXCEPT !.writer = "none"]
  /\ pc' = [pc EXCEPT ![t] = "idle"]
  /\ call' = [call EXCEPT ![t] = "none"]
  /\ result' = [result EXCEPT ![t] = NoResult]
  /\ UNCHANGED <<lr, heap, held, xm>>

(***************************************************************************)
(* Lookups, registry.go:116-154.                                           *)
(***************************************************************************)
\* m.mx.RLock()
RD_RLock(t) ==
  /\ pc[t] = "rd_lock"
  /\ CanRLock
  /\ mx' = [mx EXCEPT !.readers = @ \cup {t}]
  /\ pc' = [pc EXCEPT ![t] = "rd_read"]
  /\ UNCHANGED <<resMetas, call, result, lr, heap, held, xm>>

\* every identifier a catalog of this model can hold
GVRUniverse ==
  (DOMAIN loadNonResource(EmptyMetas))
    \cup UNION {{FromGVAndR(l.GroupVersion, l.APIResources[i].Name) :
                   i \in 1..Len(l.APIResources)} : l \in APILists}
    \cup {NewGVR(g) : g \in RegGVRs}

\* sort.Sort over the universe, computed once: sorting a set of keys gives
\* the keys of the set in the order they have in the sorted universe
GVROrder == SortGVRs(GVRUniverse)

AllGVRs(m) == SelectSeq(GVROrder, LAMBDA k : k \in DOMAIN m)

\* fmt.Errorf("no resource meta defined for %q", gvr): %q prints the
\* identifier between double quotes
MetaFor(m, gvr) ==
  IF gvr \in DOMAIN m
  THEN [meta |-> m[gvr], err |-> "nil"]
  ELSE [meta |-> ZeroAPIResource,
        err |-> "no resource meta defined for \"" \o gvr \o "\""]

\* mutant of GVK2GVR: the scan compares the Kind alone
GVK2GVR_KindOnly(m, gvk) ==
  LET hits == {k \in DOMAIN m : gvk.Kind = m[k].Kind}
  IN  IF hits = {}
      THEN {[gvr |-> NoGVR, namespaced |-> FALSE, found |-> FALSE]}
      ELSE {[gvr |-> k, namespaced |-> m[k].Namespaced, found |-> TRUE] : k \in hits}

\* the results the scan of GVK2GVR can return: Go ranges over a map in an
\* unspecified order and the scan returns the first entry that matches
GVK2GVR(m, gvk) ==
  LET hits == {k \in DOMAIN m : /\ gvk.Group = m[k].Group
                                /\ gvk.Version = m[k].Version
                                /\ gvk.Kind = m[k].Kind}
  IN  IF hits = {}
      THEN {[gvr |-> NoGVR, namespaced |-> FALSE, found |-> FALSE]}
      ELSE {[gvr |-> k, namespaced |-> m[k].Namespaced, found |-> TRUE] : k \in hits}

RD_Read(t) ==
  /\ pc[t] = "rd_read"
  /\ \/ /\ call[t] = "AllGVRs"
        /\ result' = [result EXCEPT ![t] = [op |-> "AllGVRs", val |-> AllGVRs(resMetas)]]
     \/ /\ call[t] = "MetaFor"
        /\ \E gvr \in LookupGVRs :
             result' = [result EXCEPT ![t] =
                          [op |-> "MetaFor", arg |-> gvr, val |-> MetaFor(resMetas, gvr)]]
     \/ /\ call[t] = "GVK2GVR"
        /\ \E gvk \in LookupGVKs : \E r \in GVK2GVR(resMetas, gvk) :
             result' = [result EXCEPT ![t] =
                          [op |-> "GVK2GVR", arg |-> gvk, val |-> r]]
  /\ pc' = [pc EXCEPT ![t] = "rd_ret"]
  /\ UNCHANGED <<resMetas, mx, call, lr, heap, held, xm>>

\* return: the deferred m.mx.RUnlock()
RD_Return(t) ==
  /\ pc[t] = "rd_ret"
  /\ mx' = [mx EXCEPT !.readers = @ \ {t}]
  /\ pc' = [pc EXCEPT ![t] = "idle"]
  /\ call' = [call EXCEPT ![t] = "none"]
  /\ result' = [result EXCEPT ![t] = NoResult]
  /\ UNCHANGED <<resMetas, lr, heap, held, xm>>

Next ==
  \E t \in Threads :
    \/ CallLoadResources(t)
    \/ CallRegisterMeta(t)
    \/ CallAllGVRs(t)
    \/ CallMetaFor(t)
    \/ CallGVK2GVR(t)
    \/ LR_Lock(t)
    \/ LR_Clear(t)
    \/ LR_Conn(t)
    \/ LR_Dial(t)
    \/ LR_Query(t)
    \/ LR_NonResource(t)
    \/ LR_CRDConn(t)
    \/ LR_List(t)
    \/ LR_Return(t)
    \/ RM_Lock(t)
    \/ RM_Set(t)
    \/ RD_RLock(t)
    \/ RD_Read(t)
    \/ RD_Return(t)

Spec == Init /\ [][Next]_vars

\* t takes the lock its call waits for
Acquire(t) == LR_Lock(t) \/ RM_Lock(t) \/ RD_RLock(t)

\* where a call stands when it neither waits for the lock nor has returned
ProceedPCs ==
  {"lr_clear", "lr_conn", "lr_dial", "lr_query", "lr_nonres", "lr_crdconn",
   "lr_list", "lr_ret", "rm_set", "rd_read", "rd_ret"}

\* t takes the next step of the call it is in, its own code or the return
\* of the outbound call it waits for: the call of t moves on from where it
\* stands.  Every step of LoadResources, RegisterMeta and the lookups past
\* the lock is such a step, and one of them is possible wherever the call
\* stands.
Proceed(t) ==
  /\ pc[t] \in ProceedPCs
  /\ \E q \in ProceedPCs \cup {"idle"} :
       q # pc[t] /\ pc' = [pc EXCEPT ![t] = q]

\* every thread goes on running, every outbound call returns, and a thread
\* that waits for the lock gets it if the lock is free again and again:
\* sync.RWMutex keeps new readers out while a Lock call waits, and lets the
\* waiting readers in when the writer unlocks
FairSpec ==
  /\ Spec
  /\ \A t \in Threads : WF_pc(Proceed(t)) /\ SF_vars(Acquire(t))

(***************************************************************************)
(* The slice AllGVRs returns, registry.go:117-128, in the hands of its     *)
(* caller.  Each call of the store is one step here (it takes and releases *)
(* the lock within the step); what is followed is the slice after the      *)
(* return, while its caller writes to it and the catalog changes.          *)
(***************************************************************************)
\* the next free address
FreeAddr(h) ==
  CHOOSE a \in 1..(Cardinality(DOMAIN h) + 1) :
    /\ a \notin DOMAIN h
    /\ \A b \in 1..(a - 1) : b \in DOMAIN h

\* mutant of makeGVRs: the slice of the call before is handed out again
makeGVRs_Reuses(h) == 1

\* make(client.GVRs, 0, len(m.resMetas)): the address of a new slice
makeGVRs(h) == FreeAddr(h)

\* the object at address a becomes v
Store(h, a, v) == [x \in (DOMAIN h) \cup {a} |-> IF x = a THEN v ELSE h[x]]

\* the object at address a is collected once no caller holds it
Collect(h, a, hh) ==
  IF \E u \in Threads : hh[u] = a THEN h
  ELSE [x \in (DOMAIN h) \ {a} |-> h[x]]

\* the catalogs a caller of AllGVRs can meet
SnapshotCatalogs ==
  { EmptyMetas,
    installLists(EmptyMetas, <<CoreV1, ExampleV1>>),
    loadNonResource(installLists(EmptyMetas, <<ExtensionsV1beta1, LookalikeV1>>)) }

SnapshotInit ==
  /\ resMetas \in SnapshotCatalogs
  /\ mx = [writer |-> "none", readers |-> {}]
  /\ pc = [t \in Threads |-> "idle"]
  /\ call = [t \in Threads |-> "none"]
  /\ result = [t \in Threads |-> NoResult]
  /\ lr = LRInit
  /\ heap = EmptyHeap
  /\ held = [t \in Threads |-> 0]
  /\ xm = NoExtract

\* AllGVRs: RLock, make, append every key, sort.Sort, RUnlock, return kk
SN_AllGVRs(t) ==
  /\ pc[t] = "idle"
  /\ LET kk == makeGVRs(heap)
     IN  /\ heap' = Store(heap, kk, AllGVRs(resMetas))
         /\ held' = [held EXCEPT ![t] = kk]
  /\ pc' = [pc EXCEPT ![t] = "sn_hold"]
  /\ UNCHANGED <<resMetas, mx, call, result, lr, xm>>

\* the caller assigns to the first element of the slice it was handed
SN_Write(t) ==
  /\ pc[t] = "sn_hold"
  /\ Len(heap[held[t]]) > 0
  /\ heap' = [heap EXCEPT ![held[t]][1] = NoGVR]
  /\ pc' = [pc EXCEPT ![t] = "sn_wrote"]
  /\ UNCHANGED <<resMetas, mx, call, result, lr, held, xm>>

\* the caller lets go of the slice
SN_Drop(t) ==
  /\ pc[t] \in {"sn_hold", "sn_wrote"}
  /\ held' = [held EXCEPT ![t] = 0]
  /\ heap' = Collect(heap, held[t], held')
  /\ pc' = [pc EXCEPT ![t] = "idle"]
  /\ UNCHANGED <<resMetas, mx, call, result, lr, xm>>

\* RegisterMeta: Lock, m.resMetas[client.NewGVR(gvr)] = res, Unlock
SN_RegisterMeta(t) ==
  /\ pc[t] = "idle"
  /\ \E gvr \in RegGVRs, res \in RegMetas :
       resMetas' = Put(resMetas, NewGVR(gvr), res)
  /\ UNCHANGED <<mx, pc, call, result, lr, heap, held, xm>>

\* LoadResources with a factory that has no client: Lock, clear,
\* loadPreferred returns nil, loadNonResource, loadCRDs returns, Unlock
SN_LoadResources(t) ==
  /\ pc[t] = "idle"
  /\ resMetas' = loadNonResource(clear(resMetas))
  /\ UNCHANGED <<mx, pc, call, result, lr, heap, held, xm>>

SnapshotNext ==
  \E t \in Threads :
    \/ SN_AllGVRs(t)
    \/ SN_Write(t)
    \/ SN_Drop(t)
    \/ SN_RegisterMeta(t)
    \/ SN_LoadResources(t)

SnapshotSpec == SnapshotInit /\ [][SnapshotNext]_vars

(***************************************************************************)
(* AccessorFor, registry.go:70-106.                                        *)
(***************************************************************************)
\* the type of the accessor the map literal holds under each identifier
Accessors ==
  (NewGVR("workloads") :> "Workload") @@
  (NewGVR("contexts") :> "Context") @@
  (NewGVR("containers") :> "Container") @@
  (NewGVR("scans") :> "ImageScan") @@
  (NewGVR("screendumps") :> "ScreenDump") @@
  (NewGVR("benchmarks") :> "Benchmark") @@
  (NewGVR("portforwards") :> "PortForward") @@
  (NewGVR("dir") :> "Dir") @@
  (NewGVR("v1/services") :> "Service") @@
  (NewGVR("v1/pods") :> "Pod") @@
  (NewGVR("v1/nodes") :> "Node") @@
  (NewGVR("v1/namespaces") :> "Namespace") @@
  (NewGVR("v1/configmaps") :> "ConfigMap") @@
  (NewGVR("v1/secrets") :> "Secret") @@
  (NewGVR("apps/v1/deployments") :> "Deployment") @@
  (NewGVR("apps/v1/daemonsets") :> "DaemonSet") @@
  (NewGVR("apps/v1/statefulsets") :> "StatefulSet") @@
  (NewGVR("apps/v1/replicasets") :> "ReplicaSet") @@
  (NewGVR("batch/v1/cronjobs") :> "CronJob") @@
  (NewGVR("batch/v1beta1/cronjobs") :> "CronJob") @@
  (NewGVR("batch/v1/jobs") :> "Job") @@
  (NewGVR("helm") :> "HelmChart") @@
  (NewGVR("helm-history") :> "HelmHistory") @@
  (NewGVR(crdGVR) :> "CustomResourceDefinition")

\* &T{}, new(Scaler): an accessor no Init has touched
ZeroAccessor(typ) == [type |-> typ, factory |-> "nil", gvr |-> NoGVR]

\* mutant of newAccessor: the accessors are built once and handed out again,
\* one instance for each type
newAccessor_Shared(h, typ) ==
  IF \E a \in DOMAIN h : h[a].type = typ
  THEN CHOOSE a \in DOMAIN h : h[a].type = typ
  ELSE FreeAddr(h)

\* the composite literals of the map literal and new(Scaler) are evaluated
\* on every call: the address of a new accessor
newAccessor(h, typ) == FreeAddr(h)

\* Accessor.Init(f, gvr)
InitAccessor(a, f, gvr) == [a EXCEPT !.factory = f, !.gvr = gvr]

\* arguments of AccessorFor
Factories == {"f1", "f2"}
DispatchGVRs ==
  {"v1/pods", "batch/v1/cronjobs", "batch/v1beta1/cronjobs", "helm",
   "pulses", "example.com/v1/widgets", NoGVR}

\* AccessorFor(f, gvr), and the accessor in the hands of its caller
AF_AccessorFor(t) ==
  /\ pc[t] = "idle"
  /\ \E f \in Factories, gvr \in DispatchGVRs :
       LET ok == gvr \in DOMAIN Accessors
           typ == IF ok THEN Accessors[gvr] ELSE "Scaler"
           r == newAccessor(heap, typ)
       IN  /\ heap' = Store(heap, r, InitAccessor(ZeroAccessor(typ), f, gvr))
           /\ held' = [held EXCEPT ![t] = r]
           /\ result' = [result EXCEPT ![t] =
                           [op |-> "AccessorFor", f |-> f, gvr |-> gvr,
                            err |-> "nil"]]
  /\ pc' = [pc EXCEPT ![t] = "af_hold"]
  /\ UNCHANGED <<resMetas, mx, call, lr, xm>>

\* the caller lets go of the accessor
AF_Drop(t) ==
  /\ pc[t] = "af_hold"
  /\ held' = [held EXCEPT ![t] = 0]
  /\ heap' = Collect(heap, held[t], held')
  /\ result' = [result EXCEPT ![t] = NoResult]
  /\ pc' = [pc EXCEPT ![t] = "idle"]
  /\ UNCHANGED <<resMetas, mx, call, lr, xm>>

DispatchNext ==
  \E t \in Threads :
    \/ AF_AccessorFor(t)
    \/ AF_Drop(t)

DispatchSpec == Init /\ [][DispatchNext]_vars

(***************************************************************************)
(* extractMeta, registry.go:429-521.                                       *)
(* A value of type interface{} is a record of its dynamic type t and, for  *)
(* the type it has, its string s, its map m (a function on the keys the    *)
(* map holds), its elements l or its strings ss.                           *)
(***************************************************************************)
\* the nil map
NilMap == <<>>

NilValue == [t |-> "nil", s |-> "", m |-> NilMap, l |-> <<>>, ss |-> <<>>]
StringValue(s) == [NilValue EXCEPT !.t = "string", !.s = s]
IntValue == [NilValue EXCEPT !.t = "int64"]
MapValue(f) == [NilValue EXCEPT !.t = "map[string]interface{}", !.m = f]
StringsValue(ss) == [NilValue EXCEPT !.t = "[]string", !.ss = ss]
SliceValue(vv) == [NilValue EXCEPT !.t = "[]interface{}", !.l = vv]

\* m[n]
Index(m, n) == IF n \in DOMAIN m THEN m[n] ELSE NilValue

extractStr(m, n, errs) ==
  LET x == Index(m, n)
  IN  IF x.t = "string"
      THEN [v |-> x.s, errs |-> errs]
      ELSE [v |-> "", errs |-> Append(errs, "failed to extract string " \o n)]

extractMap(m, n, errs) ==
  LET x == Index(m, n)
  IN  IF x.t = "map[string]interface{}"
      THEN [v |-> x.m, errs |-> errs]
      ELSE [v |-> NilMap, errs |-> Append(errs, "failed to extract field " \o n)]

RECURSIVE extractElems(_, _, _, _)
\* extractSlice: for _, name := range ii
extractElems(ii, n, ss, errs) ==
  IF ii = <<>> THEN [v |-> ss, errs |-> errs]
  ELSE LET o == Head(ii)
       IN  IF o.t = "string"
           THEN extractElems(Tail(ii), n, Append(ss, o.s), errs)
           ELSE IF o.t = "map[string]interface{}"
           THEN IF Index(o.m, "name").t = "string"
                THEN extractElems(Tail(ii), n, Append(ss, o.m["name"].s), errs)
                ELSE extractElems(Tail(ii), n, ss,
                       Append(errs, "unable to find key \"" \o n \o "\" in map"))
           ELSE extractElems(Tail(ii), n, ss,
                  Append(errs, "unknown field type for key \"" \o n \o "\""))

\* mutant of extractSlice: a list that is missing is an error
extractSlice_ErrorsOnMissing(m, n, errs) ==
  LET x == Index(m, n)
  IN  IF x.t = "[]string" THEN [v |-> x.ss, errs |-> errs]
      ELSE IF x.t # "[]interface{}"
      THEN [v |-> <<>>, errs |-> Append(errs, "failed to extract slice " \o n)]
      ELSE extractElems(x.l, n, <<>>, errs)

extractSlice(m, n, errs) ==
  LET x == Index(m, n)
  IN  IF x.t = "nil" THEN [v |-> <<>>, errs |-> errs]
      ELSE IF x.t = "[]string" THEN [v |-> x.ss, errs |-> errs]
      ELSE IF x.t # "[]interface{}"
      THEN [v |-> <<>>, errs |-> Append(errs, "failed to extract slice " \o n)]
      ELSE extractElems(x.l, n, <<>>, errs)

isNamespaced(scope) == scope = "Namespaced"

extractMeta(o) ==
  IF o.t # "*unstructured.Unstructured"
  THEN [m |-> ZeroAPIResource,
        errs |-> <<"expected unstructured, but got " \o o.t>>]
  ELSE LET spec       == extractMap(o.Object, "spec", <<>>)
           meta       == extractMap(o.Object, "metadata", spec.errs)
           name       == extractStr(meta.v, "name", meta.errs)
           group      == extractStr(spec.v, "group", name.errs)
           versions   == extractSlice(spec.v, "versions", group.errs)
           scope      == extractStr(spec.v, "scope", versions.errs)
           names      == extractMap(spec.v, "names", scope.errs)
           kind       == extractStr(names.v, "kind", names.errs)
           singular   == extractStr(names.v, "singular", kind.errs)
           plural     == extractStr(names.v, "plural", singular.errs)
           shortNames == extractSlice(names.v, "shortNames", plural.errs)
       IN  [m |-> [ZeroAPIResource EXCEPT
                     !.Name = plural.v,
                     !.Group = group.v,
                     !.Version = IF Len(versions.v) > 0 THEN versions.v[1] ELSE "",
                     !.Namespaced = isNamespaced(scope.v),
                     !.Kind = kind.v,
                     !.SingularName = singular.v,
                     !.ShortNames = shortNames.v],
            errs |-> shortNames.errs]

\* the fields extractMeta probes, each with its path from crd.Object
FieldPath ==
  [ metadata     |-> <<"metadata">>,
    name         |-> <<"metadata", "name">>,
    spec         |-> <<"spec">>,
    group        |-> <<"spec", "group">>,
    versions     |-> <<"spec", "versions">>,
    scope        |-> <<"spec", "scope">>,
    names        |-> <<"spec", "names">>,
    kind         |-> <<"spec", "names", "kind">>,
    singular     |-> <<"spec", "names", "singular">>,
    plural       |-> <<"spec", "names", "plural">>,
    shortNames   |-> <<"spec", "names", "shortNames">> ]

Fields == DOMAIN FieldPath
MapFields == {"metadata", "spec", "names"}
ListFields == {"versions", "shortNames"}
StringFields == Fields \ (MapFields \cup ListFields)

\* arguments of extractMeta: a well-formed definition in which at most
\* MaxFaults fields are not as they should be, and an object that is not
\* unstructured
MaxFaults == 2

\* what a field can be instead of well-formed
Shapes(x) ==
  IF x \in ListFields
  THEN {"missing", "wrong", "strings", "oneBad", "twoBad"}
  ELSE {"missing", "wrong"}

Faults ==
  UNION {{fa \in [F -> {"missing", "wrong", "strings", "oneBad", "twoBad"}] :
            \A x \in F : fa[x] \in Shapes(x)} :
           F \in {S \in SUBSET Fields : Cardinality(S) <= MaxFaults}}

\* the value of string field x when it is well-formed
GoodString ==
  [ name |-> "widgets.example.com", group |-> "example.com",
    scope |-> "Namespaced", kind |-> "Widget", singular |-> "widget",
    plural |-> "widgets" ]

\* the value of list field x in shape sh
ListOf(x, sh) ==
  IF sh = "wrong" THEN StringValue("none")
  ELSE IF sh = "strings" THEN StringsValue(<<"a", "b">>)
  ELSE IF sh = "oneBad"
  THEN SliceValue(<<StringValue("a"), MapValue([served |-> IntValue])>>)
  ELSE IF sh = "twoBad"
  THEN SliceValue(<<IntValue, MapValue([name |-> StringValue("b")]),
                    MapValue([name |-> IntValue])>>)
  ELSE IF x = "versions"
  THEN SliceValue(<<MapValue([name |-> StringValue("v1")]),
                    MapValue([name |-> StringValue("v1beta1")])>>)
  ELSE SliceValue(<<StringValue("wd")>>)

\* the unstructured object with the faults fa
Unstructured(fa) ==
  LET sh(x) == IF x \in DOMAIN fa THEN fa[x] ELSE "ok"
      Kept(xs) == {x \in xs : sh(x) # "missing"}
      Leaf(x) == IF x \in ListFields THEN ListOf(x, sh(x))
                 ELSE IF sh(x) = "wrong" THEN IntValue
                 ELSE StringValue(GoodString[x])
      Sub(x, f) == IF sh(x) = "wrong" THEN StringValue("none") ELSE MapValue(f)
      names == [x \in Kept({"kind", "singular", "plural", "shortNames"}) |-> Leaf(x)]
      spec  == [x \in Kept({"group", "versions", "scope", "names"}) |->
                  IF x = "names" THEN Sub(x, names) ELSE Leaf(x)]
      meta  == [x \in Kept({"name"}) |-> Leaf(x)]
  IN  [t |-> "*unstructured.Unstructured",
       Object |-> [x \in Kept({"metadata", "spec"}) |->
                     IF x = "spec" THEN Sub(x, spec) ELSE Sub(x, meta)]]

\* a runtime.Object that is not unstructured
TypedObject == [t |-> "*v1.CustomResourceDefinition", Object |-> NilMap]

Objects == {Unstructured(fa) : fa \in Faults} \cup {TypedObject}

ExtractInit ==
  /\ resMetas = EmptyMetas
  /\ mx = [writer |-> "none", readers |-> {}]
  /\ pc = [t \in Threads |-> "idle"]
  /\ call = [t \in Threads |-> "none"]
  /\ result = [t \in Threads |-> NoResult]
  /\ lr = LRInit
  /\ heap = EmptyHeap
  /\ held = [t \in Threads |-> 0]
  /\ xm \in {[o |-> o, done |-> FALSE] : o \in Objects}

\* extractMeta(o)
XM_extractMeta ==
  /\ ~ xm.done
  /\ LET r == extractMeta(xm.o)
     IN  xm' = [o |-> xm.o, done |-> TRUE, m |-> r.m, errs |-> r.errs]
  /\ UNCHANGED <<resMetas, mx, pc, call, result, lr, heap, held>>

ExtractNext == XM_extractMeta

ExtractSpec == ExtractInit /\ [][ExtractNext]_vars

(***************************************************************************)
(* Properties.                                                             *)
(***************************************************************************)
\* t holds the read lock
Reading(t) == pc[t] \in {"rd_read", "rd_ret"}

\* t is inside LoadResources, between m.mx.Lock() and the deferred Unlock
Refreshing(t) ==
  pc[t] \in {"lr_clear", "lr_conn", "lr_dial", "lr_query", "lr_nonres",
             "lr_crdconn", "lr_list", "lr_ret"}

\* t is inside LoadResources, waiting for the answer of an outbound call
InOutboundCall(t) == pc[t] \in {"lr_dial", "lr_query", "lr_list"}

\* LoadResources has its return value and is about to return
Returning(t) == pc[t] = "lr_ret"

\* the value a finished lookup hands to its caller is the value of the
\* lookup on catalog m
ResultOn(t, m) ==
  \/ /\ result[t].op = "AllGVRs"
     /\ result[t].val = AllGVRs(m)
  \/ /\ result[t].op = "MetaFor"
     /\ result[t].val = MetaFor(m, result[t].arg)
  \/ /\ result[t].op = "GVK2GVR"
     /\ result[t].val \in GVK2GVR(m, result[t].arg)

SyntheticMetas == loadNonResource(EmptyMetas)

\* C1: a lookup holds the read lock only while no LoadResources call is
\* between its Lock and its Unlock (in an outbound call or not), so the
\* catalog a lookup reads is the one the last finished writer left, it does
\* not change while the lookup holds the lock, and the value the lookup
\* returns is the value of the lookup on that catalog.
C1_LookupSeesNoRefresh ==
  /\ [](\A t \in Threads :
          Reading(t) =>
            /\ mx.writer = "none"
            /\ \A w \in Threads : ~ Refreshing(w)
            /\ pc[t] = "rd_ret" => ResultOn(t, resMetas))
  /\ [][(\E t \in Threads : Reading(t)) => resMetas' = resMetas]_vars

\* a lookup waits for the lock while a refresh, with the catalog rebuilt in
\* part, is in an outbound call
C1_Witness ==
  \E r, w \in Threads :
    /\ pc[r] = "rd_lock"
    /\ InOutboundCall(w)
    /\ mx.writer = w

\* loadPreferred has queried discovery and is about to return nil
AfterDiscovery(t) == pc[t] = "lr_nonres" /\ lr.query # "none"

\* C2: LoadResources returns an error exactly when the client is connected
\* and CachedDiscovery fails, and nil otherwise (no client, no connection,
\* failed query, failed listing, failed conversion); when
\* ServerPreferredResources returns an error with a partial result,
\* loadPreferred returns nil with every resource of that result that is not
\* deprecated installed in the catalog under its own Kind.
C2_ErrorOnlyFromDiscoveryHandle ==
  \A t \in Threads :
    /\ Returning(t) =>
         /\ lr.ret \in {"nil", "err"}
         /\ (lr.ret = "err") <=> (lr.conn1 = "ok" /\ lr.dial = "err")
    /\ (AfterDiscovery(t) /\ lr.query = "err") =>
         /\ lr.ret = "none"
         /\ \A i \in 1..Len(lr.rr) :
              \A j \in 1..Len(lr.rr[i].APIResources) :
                LET res == lr.rr[i].APIResources[j]
                    gvr == FromGVAndR(lr.rr[i].GroupVersion, res.Name)
                IN  gvr \notin deprecatedGVRs =>
                      /\ gvr \in DOMAIN resMetas
                      /\ resMetas[gvr].Kind = res.Kind
                      /\ resMetas[gvr].Name = res.Name

\* the query failed with a partial result of two lists and loadPreferred
\* returns nil
C2_Witness ==
  \E t \in Threads :
    /\ AfterDiscovery(t)
    /\ lr.query = "err"
    /\ Len(lr.rr) = 2
    /\ lr.rr[1] # lr.rr[2]

C4_DisconnectedLeavesSynthetic ==
  \A t \in Threads :
    (Returning(t) /\ lr.conn1 # "ok") =>
      /\ lr.ret = "nil"
      /\ resMetas = SyntheticMetas
      /\ lr.calls \cap {"CachedDiscovery", "ServerPreferredResources"} = {}
      /\ lr.conn2 # "ok" => lr.calls = {}

\* a disconnected refresh returns after it has dropped a registered entry
C4_Witness ==
  \E t \in Threads :
    /\ Returning(t)
    /\ lr.conn1 = "down"
    /\ lr.conn2 = "down"
    /\ "custom/v1/foos" \in lr.before
    /\ "custom/v1/foos" \notin DOMAIN resMetas

\* C5: once a refresh has cleared the catalog, and on its return, no
\* deny-listed identifier is in the catalog, whatever discovery reported and
\* whatever the catalog held before: MetaFor fails on it and AllGVRs does
\* not list it.
C5_DeprecatedNeverLoaded ==
  \A t \in Threads :
    (Refreshing(t) /\ pc[t] # "lr_clear") =>
      \A d \in deprecatedGVRs :
        /\ d \notin DOMAIN resMetas
        /\ MetaFor(resMetas, d).err # "nil"
        /\ ~ SliceContains(AllGVRs(resMetas), d)

\* discovery reported the deny-listed ingresses, and the catalog held them
\* (registered) before the refresh
C5_Witness ==
  \E t \in Threads :
    /\ Returning(t)
    /\ "extensions/v1beta1/ingresses" \in lr.reported
    /\ "extensions/v1beta1/deployments" \in DOMAIN resMetas
    /\ "extensions/v1beta1/ingresses" \in lr.before

\* the group of a group-version ("v1" has the empty group)
GroupOfGV(gv) ==
  LET tt == SplitSlash(gv, "") IN IF Len(tt) = 2 THEN tt[1] ELSE ""

\* what C6 says: of the descriptors the discovery loops have just installed,
\* one of an allow-listed group-version has no "crd", and one of a
\* group-version that is not allow-listed and whose group does not end with
\* ".k8s.io" has "crd"
C6_Original ==
  \A t \in Threads :
    AfterDiscovery(t) =>
      \A i \in 1..Len(lr.rr) :
        \A j \in 1..Len(lr.rr[i].APIResources) :
          LET gv  == lr.rr[i].GroupVersion
              gvr == FromGVAndR(gv, lr.rr[i].APIResources[j].Name)
          IN  gvr \notin deprecatedGVRs =>
                /\ gv \in stdGroups => ~ IsCRD(resMetas[gvr])
                /\ (gv \notin stdGroups /\ ~ HasSuffix(GroupOfGV(gv), ".k8s.io"))
                     => IsCRD(resMetas[gvr])

\* C7: loadCRDs leaves the set of identifiers as it found it, and an entry
\* is either unchanged or is the entry it found, which had no "scale", with
\* "scale" appended once.
C7_AugmentationOnlyAddsScale ==
  \A t \in Threads :
    (Returning(t) /\ lr.conn2 # "none") =>
      /\ DOMAIN resMetas = DOMAIN lr.base
      /\ \A k \in DOMAIN resMetas :
           \/ resMetas[k] = lr.base[k]
           \/ /\ ~ SliceContains(lr.base[k].Categories, scaleCat)
              /\ resMetas[k] =
                   [lr.base[k] EXCEPT !.Categories = Append(@, scaleCat)]

\* the same scalable type was listed twice and its entry has gained scale
C7_Witness ==
  \E t \in Threads :
    /\ Returning(t)
    /\ lr.oo = <<WidgetCRD, WidgetCRD>>
    /\ "example.com/v1/widgets" \in DOMAIN lr.base
    /\ resMetas # lr.base

\* the index of the first version of crd that is served and not deprecated,
\* 0 when there is none
Authoritative(crd) ==
  LET ok == {j \in 1..Len(crd.Versions) :
               crd.Versions[j].Served /\ ~ crd.Versions[j].Deprecated}
  IN  IF ok = {} THEN 0 ELSE CHOOSE j \in ok : \A h \in ok : j <= h

\* the identifiers crd makes scalable: the one of its authoritative version
\* when that version declares a scale subresource
ScaleTargets(crd) ==
  IF Authoritative(crd) = 0 \/ ~ crd.Versions[Authoritative(crd)].Scale
  THEN {}
  ELSE {NewGVRFromMeta(crd.Group, crd.Versions[Authoritative(crd)].Name,
                       crd.Plural)}

\* C8: after a listing, an entry is scalable exactly when it was scalable
\* before loadCRDs or it is the entry of the authoritative version of a
\* listed (convertible) object and that version declares scale; a listing
\* of objects without an authoritative version changes nothing; the refresh
\* returns nil.
C8_FirstServedVersionDecides ==
  \A t \in Threads :
    (Returning(t) /\ lr.list = "ok") =>
      /\ lr.ret = "nil"
      /\ \A k \in DOMAIN resMetas :
           IsScalable(resMetas[k]) <=>
             \/ k \in DOMAIN lr.base /\ IsScalable(lr.base[k])
             \/ \E i \in 1..Len(lr.oo) :
                  lr.oo[i].Conv /\ k \in ScaleTargets(lr.oo[i])
      /\ (\A i \in 1..Len(lr.oo) : Authoritative(lr.oo[i]) = 0)
           => resMetas = lr.base

\* the catalog holds the entries of two versions of gadgets, whose
\* authoritative version declares no scale while its neighbours do, and of
\* widgets, whose authoritative version is the second one and declares it
C8_Witness ==
  \E t \in Threads :
    /\ Returning(t)
    /\ lr.oo = <<GadgetCRD, WidgetCRD>>
    /\ {"example.com/v1/gadgets", "example.com/v2/gadgets",
        "example.com/v1/widgets"} \subseteq DOMAIN resMetas
    /\ IsScalable(resMetas["example.com/v1/widgets"])
    /\ ~ IsScalable(resMetas["example.com/v1/gadgets"])
    /\ ~ IsScalable(resMetas["example.com/v2/gadgets"])

\* C9: after a listing, the catalog is the one loadCRDs would have built
\* from the listing without the objects whose conversion fails, and the
\* refresh returns nil.
C9_FailedConversionSkipsOneObject ==
  \A t \in Threads :
    (Returning(t) /\ lr.list = "ok") =>
      /\ lr.ret = "nil"
      /\ resMetas = augmentAll(lr.base, SelectSeq(lr.oo, LAMBDA o : o.Conv))

\* the failing object was listed first, the object after it took effect
C9_Witness ==
  \E t \in Threads :
    /\ Returning(t)
    /\ lr.oo = <<BrokenCRD, WidgetCRD>>
    /\ "example.com/v1/widgets" \in DOMAIN resMetas
    /\ IsScalable(resMetas["example.com/v1/widgets"])
    /\ "example.com/v1/gadgets" \in DOMAIN resMetas
    /\ ~ IsScalable(resMetas["example.com/v1/gadgets"])

\* C10: on return the catalog is the one the phases of this refresh build
\* from an empty map out of its own upstream data (connectivity, discovery
\* output, listing), whatever the catalog held before; every identifier in
\* it is synthetic or was reported by this refresh's discovery, so an entry
\* of RegisterMeta or of an earlier refresh that this refresh does not
\* produce is gone.
C10_FullRebuild ==
  \A t \in Threads :
    Returning(t) =>
      /\ resMetas = lr.fresh
      /\ DOMAIN resMetas \subseteq (DOMAIN SyntheticMetas) \cup lr.reported
      /\ \A k \in lr.before : k \in DOMAIN resMetas => k \in lr.reported

\* a connected refresh with discovery output and a listing returns; the
\* catalog held a registered entry before it and does not hold it now
C10_Witness ==
  \E t \in Threads :
    /\ Returning(t)
    /\ lr.ret = "nil"
    /\ "example.com/v1/widgets" \in lr.reported
    /\ "example.com/v1/widgets" \in DOMAIN resMetas
    /\ lr.oo # <<>>
    /\ "custom/v1/foos" \in lr.before
    /\ "custom/v1/foos" \notin DOMAIN resMetas

\* t has run MetaFor and is about to return its value
MetaForDone(t) == pc[t] = "rd_ret" /\ result[t].op = "MetaFor"

\* C11: MetaFor(id) returns the descriptor the catalog holds under id with
\* a nil error, and the empty descriptor with an error that carries id when
\* the catalog holds none; the step of MetaFor leaves the catalog unchanged;
\* RegisterMeta(id, res) makes res the descriptor under id whatever the
\* catalog held there (last write wins) and leaves every other entry as it
\* was, so the descriptor MetaFor finds is the one installed last.
C11_MetaForReturnsLastInstalled ==
  /\ [](\A t \in Threads :
          MetaForDone(t) =>
            IF result[t].arg \in DOMAIN resMetas
            THEN /\ result[t].val.meta = resMetas[result[t].arg]
                 /\ result[t].val.err = "nil"
            ELSE /\ result[t].val.meta = ZeroAPIResource
                 /\ result[t].val.err # "nil"
                 /\ Contains(result[t].val.err, result[t].arg))
  /\ [][\A t \in Threads :
          /\ (pc[t] = "rd_read" /\ pc'[t] = "rd_ret") => resMetas' = resMetas
          /\ (pc[t] = "rm_set" /\ pc'[t] = "idle") =>
               LET id == NewGVR(result[t].gvr)
               IN  /\ DOMAIN resMetas' = (DOMAIN resMetas) \cup {id}
                   /\ resMetas'[id] = result[t].res
                   /\ \A k \in DOMAIN resMetas :
                        k # id => resMetas'[k] = resMetas[k]]_vars

\* one MetaFor call has found the descriptor RegisterMeta wrote last over an
\* earlier one, another has found nothing under its identifier
C11_Witness ==
  \E r, w \in Threads :
    /\ MetaForDone(r)
    /\ result[r].arg = "custom/v1/foos"
    /\ result[r].val.err = "nil"
    /\ IsCRD(result[r].val.meta)
    /\ MetaForDone(w)
    /\ result[w].arg = "extensions/v1beta1/ingresses"
    /\ result[w].val.err # "nil"

\* the pairs of identifiers in ascending order
GVRBefore == {p \in GVRUniverse \X GVRUniverse : GVRLess(p[1], p[2])}

\* C12: the slice AllGVRs returns holds exactly the identifiers of the
\* catalog at the time of the call, each once, in ascending order, and the
\* call leaves the catalog and every slice handed out before as they were;
\* no two callers hold the same slice; a caller's write to its slice changes
\* neither the catalog nor the slice of another caller, and a change of the
\* catalog changes no slice a caller holds.
C12_AllGVRsSnapshot ==
  /\ [](\A t, u \in Threads :
          (t # u /\ held[t] # 0) => held[t] # held[u])
  /\ [][\A t \in Threads :
          /\ (pc[t] = "idle" /\ pc'[t] = "sn_hold") =>
               LET kk == heap'[held'[t]]
               IN  /\ {kk[i] : i \in 1..Len(kk)} = DOMAIN resMetas
                   /\ Len(kk) = Cardinality(DOMAIN resMetas)
                   /\ \A i, j \in 1..Len(kk) :
                        i < j => <<kk[i], kk[j]>> \in GVRBefore
                   /\ resMetas' = resMetas
                   /\ \A u \in Threads \ {t} :
                        held[u] # 0 =>
                          /\ held'[u] = held[u]
                          /\ heap'[held[u]] = heap[held[u]]
          /\ (pc[t] = "sn_hold" /\ pc'[t] = "sn_wrote") =>
               /\ resMetas' = resMetas
               /\ \A u \in Threads \ {t} :
                    held[u] # 0 => heap'[held[u]] = heap[held[u]]
          /\ (resMetas' # resMetas /\ held[t] # 0) =>
               /\ held'[t] = held[t]
               /\ heap'[held[t]] = heap[held[t]]]_vars

\* a caller holds the sorted slice of a catalog of several identifiers that
\* a refresh has since replaced by a smaller one, while another caller has
\* written to a slice of its own
C12_Witness ==
  \E t, u \in Threads :
    /\ pc[t] = "sn_hold"
    /\ Len(heap[held[t]]) > Cardinality(DOMAIN resMetas)
    /\ "x.k8s.io.example.com/v1/things" \in {heap[held[t]][i] : i \in 1..Len(heap[held[t]])}
    /\ "x.k8s.io.example.com/v1/things" \notin DOMAIN resMetas
    /\ pc[u] = "sn_wrote"
    /\ heap[held[u]][1] = NoGVR

\* t has run GVK2GVR and is about to return its value
GVK2GVRDone(t) == pc[t] = "rd_ret" /\ result[t].op = "GVK2GVR"

\* C13: GVK2GVR returns found exactly when some entry of the catalog has
\* the Group, Version and Kind asked for; when found, the identifier
\* returned is the key of such an entry and the flag is that entry's
\* Namespaced; when not found, the identifier is empty and the flag false;
\* the step of GVK2GVR leaves the catalog unchanged.
C13_GVK2GVRScan ==
  /\ [](\A t \in Threads :
          GVK2GVRDone(t) =>
            LET gvk == result[t].arg
                r == result[t].val
                Match(k) == /\ resMetas[k].Group = gvk.Group
                            /\ resMetas[k].Version = gvk.Version
                            /\ resMetas[k].Kind = gvk.Kind
            IN  /\ r.found <=> \E k \in DOMAIN resMetas : Match(k)
                /\ r.found =>
                     /\ r.gvr \in DOMAIN resMetas
                     /\ Match(r.gvr)
                     /\ r.namespaced = resMetas[r.gvr].Namespaced
                /\ ~ r.found => (r.gvr = NoGVR /\ r.namespaced = FALSE))
  /\ [][\A t \in Threads :
          (pc[t] = "rd_read" /\ pc'[t] = "rd_ret" /\ call[t] = "GVK2GVR")
            => resMetas' = resMetas]_vars

\* one scan has found the namespaced widgets of example.com/v1; another has
\* found no Deployment of apps/v1 in a catalog that holds the Deployment of
\* extensions/v1beta1
C13_Witness ==
  \E r, w \in Threads :
    /\ GVK2GVRDone(r)
    /\ result[r].val = [gvr |-> "example.com/v1/widgets",
                        namespaced |-> TRUE, found |-> TRUE]
    /\ GVK2GVRDone(w)
    /\ result[w].arg.Kind = "Deployment"
    /\ ~ result[w].val.found
    /\ "extensions/v1beta1/deployments" \in DOMAIN resMetas

\* C14: AccessorFor returns a nil error for every identifier; the accessor
\* it returns has the type the table gives the identifier, and is a Scaler
\* for an identifier the table does not hold; it carries the factory and the
\* identifier of its own call, and goes on carrying them whatever other
\* calls are made; no two callers hold the same accessor.
C14_AccessorForDispatch ==
  \A t \in Threads :
    pc[t] = "af_hold" =>
      LET r == heap[held[t]]
          c == result[t]
      IN  /\ c.err = "nil"
          /\ c.gvr \in DOMAIN Accessors => r.type = Accessors[c.gvr]
          /\ c.gvr \notin DOMAIN Accessors => r.type = "Scaler"
          /\ r.factory = c.f
          /\ r.gvr = c.gvr
          /\ \A u \in Threads \ {t} : held[u] # held[t]

\* two callers hold the fallback accessors of two calls for the same
\* identifier, which the table does not hold, each with its own factory
C14_Witness ==
  \E t, u \in Threads :
    /\ pc[t] = "af_hold"
    /\ pc[u] = "af_hold"
    /\ result[t].gvr = "pulses"
    /\ result[u].gvr = "pulses"
    /\ heap[held[t]] = [type |-> "Scaler", factory |-> "f1", gvr |-> "pulses"]
    /\ heap[held[u]] = [type |-> "Scaler", factory |-> "f2", gvr |-> "pulses"]

\* the phases of LoadResources in the order of its body
PhaseOrder == <<"clear", "loadPreferred", "loadNonResource", "loadCRDs">>

\* C15: LoadResources calls made at the same time run one after the other:
\* at most one is between its Lock and its Unlock, the phases run so far
\* are an initial part of clear, loadPreferred, loadNonResource, loadCRDs,
\* every change of the catalog during a refresh is a step of that refresh,
\* and the catalog a refresh returns on, the later one as well, is the one
\* its phases build from an empty map out of its own upstream data.
C15_RefreshesSerialize ==
  /\ [](\A t \in Threads :
          Refreshing(t) =>
            /\ mx.writer = t
            /\ \A u \in Threads \ {t} : ~ Refreshing(u)
            /\ Len(lr.phases) <= Len(PhaseOrder)
            /\ lr.phases = SubSeq(PhaseOrder, 1, Len(lr.phases))
            /\ Returning(t) =>
                 /\ DOMAIN resMetas = DOMAIN lr.fresh
                 /\ \A k \in DOMAIN resMetas : resMetas[k] = lr.fresh[k])
  /\ [][\A t \in Threads :
          (Refreshing(t) /\ (resMetas' # resMetas \/ lr' # lr))
            => pc'[t] # pc[t]]_vars

\* a refresh that found a connected cluster is about to return while the
\* LoadResources call of another thread waits for the lock
C15_Witness ==
  \E t, u \in Threads :
    /\ Returning(t)
    /\ lr.list = "ok"
    /\ lr.reported # {}
    /\ call[u] = "LoadResources"
    /\ pc[u] = "lr_lock"

\* the resources of a discovery result, each with the group-version of its
\* list
Reported(rr) ==
  UNION {{[gv |-> rr[i].GroupVersion, res |-> rr[i].APIResources[j]] :
            j \in 1..Len(rr[i].APIResources)} : i \in 1..Len(rr)}

\* C16: when loadPreferred has run its loops, every resource discovery
\* reported that is not deprecated is in the catalog under the identifier
\* built from its group-version and name, with the Group and Version of
\* that identifier (the empty Group for the group-version v1), the reported
\* Name and Kind, and as SingularName the reported one when it is not empty
\* and the lower-cased Kind when it is; the catalog holds nothing else.
C16_DiscoveredDescriptor ==
  \A t \in Threads :
    AfterDiscovery(t) =>
      /\ \A p \in Reported(lr.rr) :
           LET gvr == FromGVAndR(p.gv, p.res.Name)
           IN  gvr \notin deprecatedGVRs =>
                 /\ gvr \in DOMAIN resMetas
                 /\ resMetas[gvr].Group = G(gvr)
                 /\ resMetas[gvr].Version = V(gvr)
                 /\ p.gv = "v1" =>
                      (resMetas[gvr].Group = "" /\ resMetas[gvr].Version = "v1")
                 /\ resMetas[gvr].Name = p.res.Name
                 /\ resMetas[gvr].Kind = p.res.Kind
                 /\ resMetas[gvr].SingularName =
                      IF p.res.SingularName # "" THEN p.res.SingularName
                      ELSE ToLower(p.res.Kind)
      /\ \A k \in DOMAIN resMetas :
           \E p \in Reported(lr.rr) : k = FromGVAndR(p.gv, p.res.Name)

\* discovery has reported the pods of the core group-version and the
\* deployments of extensions/v1beta1, the latter without a singular name
C16_Witness ==
  \E t \in Threads :
    /\ AfterDiscovery(t)
    /\ lr.rr = <<CoreV1, ExtensionsV1beta1>>
    /\ resMetas["v1/pods"].Group = ""
    /\ resMetas["v1/pods"].SingularName = "pod"
    /\ resMetas["extensions/v1beta1/deployments"].Group = "extensions"
    /\ resMetas["extensions/v1beta1/deployments"].Version = "v1beta1"
    /\ resMetas["extensions/v1beta1/deployments"].SingularName = "deployment"

\* the categories of descriptor r that are not scale
Unscaled(r) == SelectSeq(r.Categories, LAMBDA c : c # scaleCat)

\* C17 as stated: when LoadResources returns, the Categories of every
\* descriptor in the catalog are among crd, k9s, helm and scale, and hold at
\* most one of crd, k9s and helm.
C17_Original ==
  \A t \in Threads :
    Returning(t) =>
      \A k \in DOMAIN resMetas :
        LET cats == {resMetas[k].Categories[i] :
                       i \in 1..Len(resMetas[k].Categories)}
        IN  /\ cats \subseteq {crdCat, k9sCat, helmCat, scaleCat}
            /\ Cardinality(cats \cap {crdCat, k9sCat, helmCat}) <= 1

\* C17: the categories discovery reports for a resource are kept as they
\* are: when loadPreferred has run its loops, the Categories of a reported
\* resource are the reported ones, followed by crd when its group-version
\* is neither in the list of standard group-versions nor contains .k8s.io;
\* when LoadResources returns, the Categories of a synthetic entry are
\* those of the synthetic table (k9s alone or helm alone), with at most
\* scale appended.
C17_CategoriesAsReported ==
  \A t \in Threads :
    /\ AfterDiscovery(t) =>
         \A p \in Reported(lr.rr) :
           LET gvr == FromGVAndR(p.gv, p.res.Name)
               std == p.gv \in stdGroups \/ Contains(p.gv, ".k8s.io")
           IN  gvr \notin deprecatedGVRs =>
                 resMetas[gvr].Categories =
                   IF std THEN p.res.Categories
                   ELSE Append(p.res.Categories, crdCat)
    /\ (Returning(t) /\ lr.ret = "nil") =>
         \A k \in DOMAIN SyntheticMetas :
           /\ Unscaled(resMetas[k]) = SyntheticMetas[k].Categories
           /\ Unscaled(resMetas[k]) \in {<<k9sCat>>, <<helmCat>>}

\* discovery has reported the pods of v1 with the category all, and the
\* widgets of a group-version that is not standard
C17_Witness ==
  \E t \in Threads :
    /\ AfterDiscovery(t)
    /\ lr.rr = <<CoreV1, ExampleV1>>
    /\ resMetas["v1/pods"].Categories = <<"all">>
    /\ resMetas["example.com/v1/widgets"].Categories = <<crdCat>>

\* t is in a call of the store
Started(t) == pc[t] # "idle"

\* C18: every call of LoadResources, RegisterMeta, AllGVRs, MetaFor and
\* GVK2GVR that has started returns, that is, no thread is in a call from
\* some point on forever; every return of LoadResources, the return of the
\* discovery-handle error included, releases the lock.
C18_EveryCallReturns ==
  /\ \A t \in Threads : []<>(~ Started(t))
  /\ [][\A t \in Threads :
          (Returning(t) /\ pc'[t] = "idle") => mx'.writer = "none"]_vars

\* a refresh is about to return the discovery-handle error while the lookup
\* of another thread waits for the lock
C18_Witness ==
  \E t, u \in Threads :
    /\ Returning(t)
    /\ lr.ret = "err"
    /\ mx.writer = t
    /\ pc[u] = "rd_lock"

\* the Group, Version and Kind of descriptor r
GVKOf(r) == <<r.Group, r.Version, r.Kind>>

\* C19 as stated: when LoadResources returns, no two entries of the catalog
\* have the same Group, Version and Kind, the synthetic entries included,
\* and GVK2GVR has one possible result for each of its arguments.
C19_Original ==
  \A t \in Threads :
    Returning(t) =>
      /\ \A k1, k2 \in DOMAIN resMetas :
           k1 # k2 => GVKOf(resMetas[k1]) # GVKOf(resMetas[k2])
      /\ \A gvk \in LookupGVKs : Cardinality(GVK2GVR(resMetas, gvk)) = 1

RECURSIVE Walk(_, _)
\* the value at the end of a path of keys from map m; nil when a key is
\* missing or a value on the way is not a map
Walk(m, path) ==
  LET x == Index(m, path[1])
  IN  IF Len(path) = 1 THEN x
      ELSE IF x.t = "map[string]interface{}" THEN Walk(x.m, Tail(path))
      ELSE NilValue

\* the value of field x in the argument of the call
FieldOf(x) == Walk(xm.o.Object, FieldPath[x])

\* an element of a list that is a string or a map with a string under name
GoodElem(e) ==
  \/ e.t = "string"
  \/ e.t = "map[string]interface{}" /\ Index(e.m, "name").t = "string"

\* the number of elements of list field x that are not good
BadElems(x) ==
  IF FieldOf(x).t # "[]interface{}" THEN 0
  ELSE Cardinality({i \in 1..Len(FieldOf(x).l) : ~ GoodElem(FieldOf(x).l[i])})

\* the string and map fields that are missing or of the wrong type
BadFields ==
  {x \in StringFields : FieldOf(x).t # "string"}
    \cup {x \in MapFields : FieldOf(x).t # "map[string]interface{}"}

\* the strings list field x yields
NamesOf(x) ==
  IF FieldOf(x).t = "[]string" THEN FieldOf(x).ss
  ELSE IF FieldOf(x).t # "[]interface{}" THEN <<>>
  ELSE LET good == SelectSeq(FieldOf(x).l, GoodElem)
       IN  [i \in 1..Len(good) |->
              IF good[i].t = "string" THEN good[i].s ELSE good[i].m["name"].s]

\* the string of string field x, empty when it is missing or not a string
StringOf(x) == IF FieldOf(x).t = "string" THEN FieldOf(x).s ELSE ""

\* C20 as stated: extractMeta collects one error for each probed field that
\* is missing or of the wrong type, the lists versions and shortNames
\* included, and one for each element of a list that is neither a string nor
\* a map with a string under name, for any argument.
C20_Original ==
  xm.done =>
    Len(xm.errs) =
      Cardinality(BadFields)
        + Cardinality({x \in ListFields :
                         FieldOf(x).t \notin {"[]string", "[]interface{}"}})
        + BadElems("versions") + BadElems("shortNames")

\* C20: for an argument that is not unstructured extractMeta returns at
\* once, with the empty descriptor and one error; for an unstructured
\* argument it probes every field and collects one error for each string or
\* map field that is missing or of the wrong type, none for a list that is
\* missing or a []string, one for a list of another type, and one for each
\* element of a []interface{} list that is neither a string nor a map with a
\* string under name; the descriptor holds the strings found (Name is the
\* plural), the good elements of shortNames in their order and the first
\* good element of versions.
C20_ExtractMetaCollects ==
  xm.done =>
    IF xm.o.t # "*unstructured.Unstructured"
    THEN Len(xm.errs) = 1 /\ xm.m = ZeroAPIResource
    ELSE /\ Len(xm.errs) =
              Cardinality(BadFields)
                + Cardinality({x \in ListFields :
                     FieldOf(x).t \notin {"nil", "[]string", "[]interface{}"}})
                + BadElems("versions") + BadElems("shortNames")
         /\ xm.m.Name = StringOf("plural")
         /\ xm.m.Group = StringOf("group")
         /\ xm.m.Kind = StringOf("kind")
         /\ xm.m.SingularName = StringOf("singular")
         /\ xm.m.Namespaced = (StringOf("scope") = "Namespaced")
         /\ xm.m.ShortNames = NamesOf("shortNames")
         /\ xm.m.Version = IF NamesOf("versions") = <<>> THEN ""
                           ELSE NamesOf("versions")[1]

\* extractMeta has returned for a definition without versions whose
\* shortNames hold one good element among two that are not
C20_Witness ==
  /\ xm.done
  /\ xm.o.t = "*unstructured.Unstructured"
  /\ FieldOf("versions").t = "nil"
  /\ BadElems("shortNames") = 2
  /\ Len(xm.errs) = 2
  /\ xm.m.ShortNames = <<"b">>
  /\ xm.m.Version = ""
  /\ xm.m.Kind = "Widget"

====
